---- MODULE Spec2Model ----
(***************************************************************************)
(* A model of qcsv: loading a delimited file, inferring one type per       *)
(* column, casting the cells, and the table-to-table transforms and        *)
(* column views built on map_data and map_names.                           *)
(*                                                                         *)
(* Text is modelled as a sequence of one-character strings, so that the    *)
(* parsers (int, float), the formatters (str) and strip/lower are computed *)
(* character by character.  A Python value is a record with the same four  *)
(* fields whatever its runtime type.                                       *)
(***************************************************************************)
EXTENDS Integers, Sequences, FiniteSets, TLC

VARIABLES
    file,         \* the rows the csv reader yields, each a sequence of raw fields
    skip_header,  \* read's skip_header argument
    table,        \* the caller's current Table (types, names, rows)
    prev,         \* the Table passed to the last call, as it was on entry
    arg,          \* the same Table object, as it is after the call
    err,          \* the exception the last call raised (kind "" when none)
    view,         \* the Column returned by the last call to column
    cols,         \* the list of Columns returned by the last call to columns
    freq,         \* the dict returned by frequencies, and the interpreter used
    fold,         \* the position and local variables of a running _column_types
    op,           \* the last call and its arguments
    nops          \* number of calls made on the loaded table

vars == <<file, skip_header, table, prev, arg, err, view, cols, freq, fold,
          op, nops>>

----------------------------------------------------------------------------
(* Bounds of the model                                                     *)

MaxRows == 2
MaxOps == 2

----------------------------------------------------------------------------
(* Python values                                                           *)

Cell(tag, s, n, e) == [tag |-> tag, s |-> s, n |-> n, e |-> e]

PyNone == Cell("None", <<>>, 0, 0)

PyStr(s) == Cell("str", s, 0, 0)

PyInt(n) == Cell("int", <<>>, n, 0)

\* A float is the decimal n * 10^e with n not a multiple of 10 (0.0 is 0, 0).
RECURSIVE PyFloat(_, _)
PyFloat(m, e) ==
    IF m = 0 THEN Cell("float", <<>>, 0, 0)
    ELSE IF m % 10 = 0 THEN PyFloat(m \div 10, e + 1)
    ELSE Cell("float", <<>>, m, e)

\* An exception raised while a cell is computed.
Raise(kind) == Cell(kind, <<>>, 0, 0)

Types == {"None", "int", "float", "str"}

IsRaise(cell) == cell.tag \notin Types

----------------------------------------------------------------------------
(* Text: strip, lower, and the int / float / str conversions               *)

DigitVal ==
    ("0" :> 0) @@ ("1" :> 1) @@ ("2" :> 2) @@ ("3" :> 3) @@ ("4" :> 4) @@
    ("5" :> 5) @@ ("6" :> 6) @@ ("7" :> 7) @@ ("8" :> 8) @@ ("9" :> 9)

DigitChar == <<"0", "1", "2", "3", "4", "5", "6", "7", "8", "9">>

\* The letters of the model's alphabet that lower() changes.
LowerOf == ("A" :> "a") @@ ("B" :> "b") @@ ("C" :> "c")

Whitespace == {" "}

RECURSIVE lstrip(_)
lstrip(s) ==
    IF Len(s) > 0 /\ s[1] \in Whitespace THEN lstrip(Tail(s)) ELSE s

RECURSIVE rstrip(_)
rstrip(s) ==
    IF Len(s) > 0 /\ s[Len(s)] \in Whitespace
    THEN rstrip(SubSeq(s, 1, Len(s) - 1))
    ELSE s

strip(s) == rstrip(lstrip(s))

lower(s) ==
    [i \in DOMAIN s |-> IF s[i] \in DOMAIN LowerOf THEN LowerOf[s[i]] ELSE s[i]]

Unsigned(s) == IF Len(s) > 0 /\ s[1] \in {"+", "-"} THEN Tail(s) ELSE s

SignOf(s) == IF Len(s) > 0 /\ s[1] = "-" THEN -1 ELSE 1

AllDigits(s) == \A i \in DOMAIN s : s[i] \in DOMAIN DigitVal

RECURSIVE DigitsValue(_)
DigitsValue(s) ==
    IF Len(s) = 0 THEN 0
    ELSE 10 * DigitsValue(SubSeq(s, 1, Len(s) - 1)) + DigitVal[s[Len(s)]]

\* int(s) accepts an optional sign followed by one or more digits.
int_ok(s) == Len(Unsigned(s)) > 0 /\ AllDigits(Unsigned(s))

int_of_str(s) == SignOf(s) * DigitsValue(Unsigned(s))

\* Index of the first character of s that is in chars, 0 when there is none.
IndexOf(s, chars) ==
    IF \E i \in DOMAIN s : s[i] \in chars
    THEN CHOOSE i \in DOMAIN s :
            s[i] \in chars /\ \A j \in 1..(i - 1) : s[j] \notin chars
    ELSE 0

HasExp(s) == IndexOf(s, {"e", "E"}) # 0

Mantissa(s) ==
    IF HasExp(s) THEN SubSeq(s, 1, IndexOf(s, {"e", "E"}) - 1) ELSE s

Exponent(s) == SubSeq(s, IndexOf(s, {"e", "E"}) + 1, Len(s))

IntPart(u) ==
    IF IndexOf(u, {"."}) = 0 THEN u ELSE SubSeq(u, 1, IndexOf(u, {"."}) - 1)

FracPart(u) ==
    IF IndexOf(u, {"."}) = 0 THEN <<>>
    ELSE SubSeq(u, IndexOf(u, {"."}) + 1, Len(u))

\* float(s) accepts [sign] (digits [. [digits]] | . digits) [e [sign] digits].
float_ok(s) ==
    LET u == Unsigned(Mantissa(s)) IN
        /\ AllDigits(IntPart(u))
        /\ AllDigits(FracPart(u))
        /\ Len(IntPart(u)) + Len(FracPart(u)) > 0
        /\ (HasExp(s) => int_ok(Exponent(s)))

float_of_str(s) ==
    LET u == Unsigned(Mantissa(s)) IN
        PyFloat(SignOf(s) * DigitsValue(IntPart(u) \o FracPart(u)),
                (IF HasExp(s) THEN int_of_str(Exponent(s)) ELSE 0)
                    - Len(FracPart(u)))

RECURSIVE NatToStr(_)
NatToStr(n) ==
    IF n < 10 THEN <<DigitChar[n + 1]>>
    ELSE NatToStr(n \div 10) \o <<DigitChar[(n % 10) + 1]>>

Abs(n) == IF n < 0 THEN -n ELSE n

str_of_int(n) == IF n < 0 THEN <<"-">> \o NatToStr(-n) ELSE NatToStr(n)

Zeros(k) == [i \in 1..k |-> "0"]

RECURSIVE Pow10(_)
Pow10(k) == IF k <= 0 THEN 1 ELSE 10 * Pow10(k - 1)

\* repr of the float m * 10^e: positional when the decimal exponent is in
\* -4..15, scientific otherwise.
str_of_float(m, e) ==
    LET d == NatToStr(Abs(m))
        k == Len(d)
        x == k + e - 1
        sign == IF m < 0 THEN <<"-">> ELSE <<>>
        body ==
            IF x < -4 \/ x >= 16
            THEN <<d[1]>>
                 \o (IF k > 1 THEN <<".">> \o SubSeq(d, 2, k) ELSE <<>>)
                 \o <<"e">> \o (IF x < 0 THEN <<"-">> ELSE <<"+">>)
                 \o (IF Abs(x) < 10 THEN <<"0">> ELSE <<>>) \o NatToStr(Abs(x))
            ELSE IF e >= 0 THEN d \o Zeros(e) \o <<".", "0">>
            ELSE IF k + e > 0
                 THEN SubSeq(d, 1, k + e) \o <<".">> \o SubSeq(d, k + e + 1, k)
            ELSE <<"0", ".">> \o Zeros(-(k + e)) \o d
    IN sign \o body

\* int(x) of a float truncates toward zero.
int_of_float(m, e) ==
    IF e >= 0 THEN m * Pow10(e)
    ELSE IF m < 0 THEN -((-m) \div Pow10(-e))
    ELSE m \div Pow10(-e)

\* typ(cell) for the type constructors int, float and str.
Construct(typ, cell) ==
    CASE typ = "int" ->
            (CASE cell.tag = "str" ->
                    IF int_ok(strip(cell.s)) THEN PyInt(int_of_str(strip(cell.s)))
                    ELSE Raise("ValueError")
               [] cell.tag = "int" -> cell
               [] cell.tag = "float" -> PyInt(int_of_float(cell.n, cell.e))
               [] OTHER -> Raise("TypeError"))
      [] typ = "float" ->
            (CASE cell.tag = "str" ->
                    IF float_ok(strip(cell.s)) THEN float_of_str(strip(cell.s))
                    ELSE Raise("ValueError")
               [] cell.tag = "int" -> PyFloat(cell.n, 0)
               [] cell.tag = "float" -> cell
               [] OTHER -> Raise("TypeError"))
      [] typ = "str" ->
            (CASE cell.tag = "str" -> cell
               [] cell.tag = "int" -> PyStr(str_of_int(cell.n))
               [] cell.tag = "float" -> PyStr(str_of_float(cell.n, cell.e))
               [] OTHER -> PyStr(<<"N", "o", "n", "e">>))
      [] OTHER -> Raise("TypeError")

----------------------------------------------------------------------------
(* Tables, columns and exceptions                                          *)

Range(seq) == {seq[i] : i \in DOMAIN seq}

Table(types, names, rows) == [types |-> types, names |-> names, rows |-> rows]

Column(type, name, cells) == [type |-> type, name |-> name, cells |-> cells]

NoTable == Table(<<>>, <<>>, <<>>)

NoColumn == Column("None", <<>>, <<>>)

\* No frequencies computed: no interpreter chosen, an empty dict.
NoFreq == [python |-> 0, counts |-> <<>>]

\* No fold of _column_types in progress.
NoFold == [c |-> 0, k |-> 0, prev_typ |-> "None", next_typ |-> "None"]

NoErr == [kind |-> "", row |-> 0, actual |-> 0, expected |-> 0]

Error(kind) == [NoErr EXCEPT !.kind = kind]

----------------------------------------------------------------------------
(* Loading: _data                                                          *)

\* A variant of IndexNames that counts the columns from 1.
IndexNames_from_one(n) == [i \in 1..n |-> str_of_int(i)]

\* list(map(str, range(0, n)))
IndexNames(n) == [i \in 1..n |-> str_of_int(i - 1)]

\* list(map(str.strip, row)), the cells being Python strings
StripRow(row) == [i \in DOMAIN row |-> PyStr(strip(row[i]))]

\* The loop over the reader's remaining rows; i is enumerate's index.
RECURSIVE data_loop(_, _, _, _)
data_loop(names, rows, rest, i) ==
    IF Len(rest) = 0 THEN [err |-> NoErr, names |-> names, rows |-> rows]
    ELSE LET row == Head(rest)
             names1 == IF Len(names) = 0 THEN IndexNames(Len(row)) ELSE names
         IN IF Len(row) # Len(names1)
            THEN [err |-> [kind |-> "AssertionError", row |-> i,
                           actual |-> Len(row), expected |-> Len(names1)],
                  names |-> names1, rows |-> rows]
            ELSE data_loop(names1, Append(rows, StripRow(row)), Tail(rest), i + 1)

_data(lines, skip) ==
    IF skip THEN data_loop(<<>>, <<>>, lines, 0)
    ELSE IF Len(lines) = 0
         THEN [err |-> Error("StopIteration"), names |-> <<>>, rows |-> <<>>]
    ELSE data_loop([i \in DOMAIN Head(lines) |-> strip(Head(lines)[i])],
                   <<>>, Tail(lines), 0)

----------------------------------------------------------------------------
(* Type inference: _column_types                                           *)

\* classify with the float parse attempted before the int parse.
classify_float_first(col, prev_typ, next_typ) ==
    IF Len(col.s) = 0 THEN "None"
    ELSE IF prev_typ # "str"
         THEN IF ~IsRaise(Construct("float", col)) THEN "float"
              ELSE IF ~IsRaise(Construct("int", col)) THEN "int"
              ELSE "str"
    ELSE next_typ

\* next_typ after the cell col has been inspected (the cell is classified
\* only while the column is not committed to str).
classify(col, prev_typ, next_typ) ==
    IF Len(col.s) = 0 THEN "None"
    ELSE IF prev_typ # "str"
         THEN IF ~IsRaise(Construct("int", col)) THEN "int"
              ELSE IF ~IsRaise(Construct("float", col)) THEN "float"
              ELSE "str"
    ELSE next_typ

\* A variant of merge in which the type of the latest non-empty cell wins.
merge_last_wins(prev_typ, next_typ) ==
    IF next_typ = "None" THEN prev_typ ELSE next_typ

\* prev_typ after next_typ has been merged into it.
merge(prev_typ, next_typ) ==
    IF prev_typ = "str" \/ next_typ = "str" THEN "str"
    ELSE IF next_typ = "float" /\ prev_typ = "int" THEN "float"
    ELSE IF prev_typ = "None" /\ next_typ # "None" THEN next_typ
    ELSE prev_typ

\* The fold of column c over rows k.., or "IndexError" when a row has no
\* cell c.
RECURSIVE column_fold(_, _, _, _, _)
column_fold(rows, c, k, prev_typ, next_typ) ==
    IF k > Len(rows) THEN prev_typ
    ELSE IF c \notin DOMAIN rows[k] THEN "IndexError"
    ELSE LET nxt == classify(rows[k][c], prev_typ, next_typ)
         IN column_fold(rows, c, k + 1, merge(prev_typ, nxt), nxt)

RECURSIVE types_loop(_, _, _, _)
types_loop(names, rows, c, types) ==
    IF c > Len(names) THEN [err |-> NoErr, types |-> types]
    ELSE LET typ == column_fold(rows, c, 1, "None", "None")
         IN IF typ = "IndexError"
            THEN [err |-> Error("IndexError"), types |-> types]
            ELSE types_loop(names, rows, c + 1,
                            [types EXCEPT ![names[c]] = typ])

_column_types(names, rows) ==
    types_loop(names, rows, 1, [name \in Range(names) |-> "None"])

----------------------------------------------------------------------------
(* Type inference as the package module does it: column_types              *)

\* next_typ of one cell: every non-empty cell is parsed, whatever the type
\* recorded so far.
column_types_next_typ(col) ==
    IF Len(col.s) = 0 THEN "None"
    ELSE IF ~IsRaise(Construct("int", col)) THEN "int"
    ELSE IF ~IsRaise(Construct("float", col)) THEN "float"
    ELSE "str"

\* types[name] after one cell: assigned in three cases, left alone otherwise.
column_types_merge(prev_typ, next_typ) ==
    IF prev_typ = "str" \/ next_typ = "str" THEN "str"
    ELSE IF next_typ = "float" /\ prev_typ = "int" THEN "float"
    ELSE IF prev_typ = "None" /\ next_typ # "None" THEN next_typ
    ELSE prev_typ

\* The inner loop over the cells i.. of one row; the type recorded so far is
\* read from, and written to, types[names[i]].
RECURSIVE column_types_row(_, _, _, _)
column_types_row(names, row, i, types) ==
    IF i > Len(row) THEN [err |-> NoErr, types |-> types]
    ELSE IF i \notin DOMAIN names
         THEN [err |-> Error("IndexError"), types |-> types]
    ELSE LET name == names[i]
             prev_typ == types[name]
             next_typ == column_types_next_typ(row[i])
         IN column_types_row(names, row, i + 1,
                [types EXCEPT ![name] = column_types_merge(prev_typ, next_typ)])

\* The outer loop over the rows k..
RECURSIVE column_types_rows(_, _, _, _)
column_types_rows(names, rows, k, types) ==
    IF k > Len(rows) THEN [err |-> NoErr, types |-> types]
    ELSE LET after == column_types_row(names, rows[k], 1, types)
         IN IF after.err.kind # "" THEN after
            ELSE column_types_rows(names, rows, k + 1, after.types)

column_types(names, rows) ==
    column_types_rows(names, rows, 1, [name \in Range(names) |-> "None"])

----------------------------------------------------------------------------
(* The functions callers pass in                                           *)

\* One-argument converters, as given to convert_columns and convert_types:
\* len(x), -x and x.lower().
Fns == {"len", "neg", "lower"}

ApplyFn(g, cell) ==
    CASE g = "len" ->
            IF cell.tag = "str" THEN PyInt(Len(cell.s)) ELSE Raise("TypeError")
      [] g = "neg" ->
            (CASE cell.tag = "int" -> PyInt(-cell.n)
               [] cell.tag = "float" -> PyFloat(-cell.n, cell.e)
               [] OTHER -> Raise("TypeError"))
      [] g = "lower" ->
            IF cell.tag = "str" THEN PyStr(lower(cell.s))
            ELSE Raise("AttributeError")

\* Header functions, as given to map_names: the name lowercased, and the
\* column index as a string.
NameFns == {"lower", "index"}

ApplyNameFn(f, typ, i, name) ==
    IF f = "lower" THEN lower(name) ELSE str_of_int(i)

\* A cell function f(typ, name, r, c, cell) with the values it closes over.
\* An unset fstr / fint / ffloat is "".
Closure(fn) ==
    [fn |-> fn, dstr |-> PyNone, dint |-> PyNone, dfloat |-> PyNone,
     kwargs |-> <<>>, fstr |-> "", fint |-> "", ffloat |-> "", g |-> ""]

----------------------------------------------------------------------------
(* The cell functions of cast and the convert_* transforms                 *)

\* cast_f testing "not cell" where the code tests for an empty string or None.
cast_f_falsy(typ, name, r, c, cell) ==
    IF \/ cell.tag = "None"
       \/ (cell.tag = "str" /\ Len(cell.s) = 0)
       \/ (cell.tag \in {"int", "float"} /\ cell.n = 0)
       \/ typ = "None"
    THEN PyNone
    ELSE Construct(typ, cell)

\* cast_f returning the cell as it is where the code calls typ(cell).
cast_f_nocast(typ, name, r, c, cell) ==
    IF (cell.tag = "str" /\ Len(cell.s) = 0) \/ typ = "None" \/ cell.tag = "None"
    THEN PyNone
    ELSE cell

cast_f(typ, name, r, c, cell) ==
    IF (cell.tag = "str" /\ Len(cell.s) = 0) \/ typ = "None" \/ cell.tag = "None"
    THEN PyNone
    ELSE Construct(typ, cell)

\* convert_missing_cells_f with the int and float defaults exchanged.
convert_missing_cells_f_swapped(f, typ, name, r, c, cell) ==
    IF cell.tag = "None" /\ typ # "None"
    THEN IF typ = "str" THEN f.dstr
         ELSE IF typ = "int" THEN f.dfloat
         ELSE IF typ = "float" THEN f.dint
         ELSE Raise("AssertionError")
    ELSE cell

\* A variant of f in convert_missing_cells without the float branch, so that
\* a float column falls through to the assertion.
convert_missing_cells_f_no_float(f, typ, name, r, c, cell) ==
    IF cell.tag = "None" /\ typ # "None"
    THEN (IF typ = "str" THEN f.dstr
          ELSE IF typ = "int" THEN f.dint
          ELSE Raise("AssertionError"))
    ELSE cell

convert_missing_cells_f(f, typ, name, r, c, cell) ==
    IF cell.tag = "None" /\ typ # "None"
    THEN IF typ = "str" THEN f.dstr
         ELSE IF typ = "int" THEN f.dint
         ELSE IF typ = "float" THEN f.dfloat
         ELSE Raise("AssertionError")
    ELSE cell

\* A variant of f in convert_columns that matches keys ignoring letter case,
\* as column does.
convert_columns_f_nocase(f, typ, name, r, c, cell) ==
    IF \E key \in DOMAIN f.kwargs : lower(key) = lower(name)
    THEN ApplyFn(f.kwargs[CHOOSE key \in DOMAIN f.kwargs :
                             lower(key) = lower(name)], cell)
    ELSE cell

convert_columns_f(f, typ, name, r, c, cell) ==
    IF name \in DOMAIN f.kwargs THEN ApplyFn(f.kwargs[name], cell) ELSE cell

\* A variant of f in convert_types that dispatches on the runtime type of
\* the cell instead of the type of its column.
convert_types_f_by_value(f, typ, name, r, c, cell) ==
    IF cell.tag = "str" /\ f.fstr # "" THEN ApplyFn(f.fstr, cell)
    ELSE IF cell.tag = "int" /\ f.fint # "" THEN ApplyFn(f.fint, cell)
    ELSE IF cell.tag = "float" /\ f.ffloat # "" THEN ApplyFn(f.ffloat, cell)
    ELSE cell

convert_types_f(f, typ, name, r, c, cell) ==
    IF typ = "str" /\ f.fstr # "" THEN ApplyFn(f.fstr, cell)
    ELSE IF typ = "int" /\ f.fint # "" THEN ApplyFn(f.fint, cell)
    ELSE IF typ = "float" /\ f.ffloat # "" THEN ApplyFn(f.ffloat, cell)
    ELSE cell

\* The call f(typ, name, r, c, cell) that map_data makes.
Apply(f, typ, name, r, c, cell) ==
    CASE f.fn = "cast" -> cast_f(typ, name, r, c, cell)
      [] f.fn = "convert_missing_cells" ->
            convert_missing_cells_f(f, typ, name, r, c, cell)
      [] f.fn = "convert_columns" -> convert_columns_f(f, typ, name, r, c, cell)
      [] f.fn = "convert_types" -> convert_types_f(f, typ, name, r, c, cell)
      [] OTHER -> ApplyFn(f.g, cell)

----------------------------------------------------------------------------
(* map_data and map_names                                                  *)

\* A call's outcome: the input object as the call leaves it, the exception
\* raised (kind "" when none) and the value returned.
Outcome(a, e, r) == [arg |-> a, err |-> e, ret |-> r]

\* The value map_data computes for cell (r, c), indices from 1 here and
\* from 0 in the call of f.
new_cell(t, f, r, c) ==
    IF c \notin DOMAIN t.names THEN Raise("IndexError")
    ELSE IF t.names[c] \notin DOMAIN t.types THEN Raise("KeyError")
    ELSE Apply(f, t.types[t.names[c]], t.names[c], r - 1, c - 1, t.rows[r][c])

\* new_rows_of with every new row one cell short.
new_rows_short(t, f) ==
    [r \in DOMAIN t.rows |->
        [c \in 1..(Len(t.rows[r]) - 1) |-> new_cell(t, f, r, c)]]

new_rows_of(t, f) ==
    [r \in DOMAIN t.rows |-> [c \in DOMAIN t.rows[r] |-> new_cell(t, f, r, c)]]

\* The first exception in row-major order, "" when no cell raises.
first_raise(rows) ==
    IF \E r \in DOMAIN rows : \E c \in DOMAIN rows[r] : IsRaise(rows[r][c])
    THEN LET r == CHOOSE r \in DOMAIN rows :
                    /\ \E c \in DOMAIN rows[r] : IsRaise(rows[r][c])
                    /\ \A q \in 1..(r - 1) :
                          \A c \in DOMAIN rows[q] : ~IsRaise(rows[q][c])
             c == CHOOSE c \in DOMAIN rows[r] :
                    /\ IsRaise(rows[r][c])
                    /\ \A d \in 1..(c - 1) : ~IsRaise(rows[r][d])
         IN rows[r][c].tag
    ELSE ""

\* map_data writing the new cells into the rows of its input table.
map_data_in_place(t, f) ==
    LET new_rows == new_rows_of(t, f)
        raised == first_raise(new_rows)
        written ==
            [t EXCEPT !.rows =
                [r \in DOMAIN t.rows |-> [c \in DOMAIN t.rows[r] |->
                    IF IsRaise(new_rows[r][c]) THEN t.rows[r][c]
                    ELSE new_rows[r][c]]]]
    IN IF raised # "" THEN Outcome(written, Error(raised), NoTable)
       ELSE Outcome(written, NoErr, written)

map_data(t, f) ==
    LET new_rows == new_rows_of(t, f)
        raised == first_raise(new_rows)
    IN IF raised # "" THEN Outcome(t, Error(raised), NoTable)
       ELSE Outcome(t, NoErr, [t EXCEPT !.rows = new_rows])

map_names(t, f) ==
    IF \E i \in DOMAIN t.names : t.names[i] \notin DOMAIN t.types
    THEN Outcome(t, Error("KeyError"), NoTable)
    ELSE Outcome(t, NoErr,
                 [t EXCEPT !.names =
                     [i \in DOMAIN t.names |->
                         ApplyNameFn(f, t.types[t.names[i]], i - 1, t.names[i])]])

----------------------------------------------------------------------------
(* read, cast and the convert_* transforms                                 *)

cast(t) == map_data(t, Closure("cast"))

convert_missing_cells(t, dstr, dint, dfloat) ==
    map_data(t, [Closure("convert_missing_cells") EXCEPT
                    !.dstr = dstr, !.dint = dint, !.dfloat = dfloat])

convert_columns(t, kwargs) ==
    map_data(t, [Closure("convert_columns") EXCEPT !.kwargs = kwargs])

convert_types(t, fstr, fint, ffloat) ==
    map_data(t, [Closure("convert_types") EXCEPT
                    !.fstr = fstr, !.fint = fint, !.ffloat = ffloat])

read(lines, skip) ==
    LET d == _data(lines, skip)
        ty == _column_types(d.names, d.rows)
    IN IF d.err.kind # "" THEN Outcome(NoTable, d.err, NoTable)
       ELSE IF ty.err.kind # "" THEN Outcome(NoTable, ty.err, NoTable)
       ELSE cast(Table(ty.types, d.names, d.rows))

----------------------------------------------------------------------------
(* Views: column                                                           *)

\* colindex of column: the first index whose lowercased name matches, 0 when
\* there is none (-1 in the code, whose indices start at 0).
colindex_of(t, colname) ==
    IF \E i \in DOMAIN t.names : lower(t.names[i]) = lower(lower(colname))
    THEN CHOOSE i \in DOMAIN t.names :
            /\ lower(t.names[i]) = lower(lower(colname))
            /\ \A j \in 1..(i - 1) : lower(t.names[j]) # lower(lower(colname))
    ELSE 0

\* colcells of column: for each row in order, the cells at index colindex.
RECURSIVE colcells_of(_, _)
colcells_of(rows, colindex) ==
    IF Len(rows) = 0 THEN <<>>
    ELSE (IF colindex \in DOMAIN Head(rows) THEN <<Head(rows)[colindex]>> ELSE <<>>)
         \o colcells_of(Tail(rows), colindex)

column(t, colname) ==
    LET colindex == colindex_of(t, colname) IN
        IF colindex = 0 THEN Outcome(t, Error("AssertionError"), NoColumn)
        ELSE IF t.names[colindex] \notin DOMAIN t.types
             THEN Outcome(t, Error("KeyError"), NoColumn)
        ELSE Outcome(t, NoErr,
                     Column(t.types[t.names[colindex]], t.names[colindex],
                            colcells_of(t.rows, colindex)))

\* A variant of columns that builds each Column by looking its name up, as
\* column does.
columns_by_lookup(t) ==
    IF \E i \in DOMAIN t.names : column(t, t.names[i]).err # NoErr
    THEN Outcome(t, Error("KeyError"), <<>>)
    ELSE Outcome(t, NoErr,
                 [i \in DOMAIN t.names |-> column(t, t.names[i]).ret])

\* columns: one list of cells per name, filled row by row by position, then
\* one Column per name in order, its type looked up by name.
columns(t) ==
    IF \E r \in DOMAIN t.rows : Len(t.rows[r]) > Len(t.names)
    THEN Outcome(t, Error("IndexError"), <<>>)
    ELSE IF \E i \in DOMAIN t.names : t.names[i] \notin DOMAIN t.types
         THEN Outcome(t, Error("KeyError"), <<>>)
    ELSE Outcome(t, NoErr,
                 [i \in DOMAIN t.names |->
                     Column(t.types[t.names[i]], t.names[i],
                            colcells_of(t.rows, i))])

\* The interpreters the package declares support for: Python 2 and 3.
Pythons == {2, 3}

\* np.unique(column.cells) sorts the cells.  Python 2 orders None before
\* every other value; Python 3 raises TypeError when ordering None.
Sortable(cells, python) ==
    python = 2 \/ \A i \in DOMAIN cells : cells[i].tag # "None"

\* np.unique: the distinct cells (their order is not modelled, the dict built
\* from them has none).
unique(cells) == Range(cells)

\* np.bincount(np.searchsorted(ukeys, cells)) zipped with ukeys: for each
\* distinct cell, the number of cells that land on it.
bincount(ukeys, cells) ==
    [u \in ukeys |-> Cardinality({i \in DOMAIN cells : cells[i] = u})]

frequencies(col, python) ==
    IF ~Sortable(col.cells, python)
    THEN Outcome(col, Error("TypeError"), <<>>)
    ELSE Outcome(col, NoErr, bincount(unique(col.cells), col.cells))

----------------------------------------------------------------------------
(* Inputs                                                                  *)

\* Raw fields of a data row: empty, integer, float, text, and a padded zero.
Fields == {<<>>, <<"1">>, <<"1", ".", "5">>, <<"x">>, <<" ", "0">>}

\* Header rows: one column, two distinct names, a repeated name, and two
\* names that differ only in letter case (one of them padded).
Headers ==
    { << <<"a">> >>,
      << <<"a">>, <<"b">> >>,
      << <<"a">>, <<"a">> >>,
      << <<"A">>, <<"a", " ">> >> }

FileRows(w) ==
    IF w = 1 THEN {<<x>> : x \in Fields}
    ELSE { << <<"1">>, <<"x">> >>,
           << <<>>, <<"1", ".", "5">> >>,
           << <<" ", "0">>, <<>> >>,
           << <<"x">>, <<"1">> >>,
           << <<"1", ".", "5">>, <<"1">> >>,
           << <<>>, <<>> >> }

Bodies(w) == UNION {[1..n -> FileRows(w)] : n \in 0..MaxRows}

HeadedFiles == UNION {{<<h>> \o b : b \in Bodies(Len(h))} : h \in Headers}

\* Files whose rows do not all have the same number of fields, a blank line
\* being a row of no fields.
RaggedFiles ==
    { << << <<"1">>, <<"2">> >>, << <<"1">>, <<"2">>, <<"3">> >> >>,
      << << <<"a">>, <<"b">> >>, << <<"1">>, <<"x">> >>, << <<"1">> >> >>,
      << << <<"a">> >>, << <<"1">>, <<"x">> >>, << <<"1">>, <<"x">> >> >>,
      << << <<"a">> >>, << <<"1">> >>, <<>> >>,
      << <<>>, << <<"1">> >> >>,
      << <<>>, <<>> >> }

\* Raw cells of the grids given to _column_types directly.
InferCells ==
    {<<>>, <<"1">>, <<"-", "2">>, <<"1", ".", "5">>, <<"1", "e", "1">>, <<"x">>}

InferNames ==
    { << <<"a">> >>, << <<"a">>, <<"b">> >>, << <<"a">>, <<"a">> >> }

InferGrids(w) ==
    UNION {[1..n -> [1..w -> {PyStr(x) : x \in InferCells}]] : n \in 0..MaxRows}

\* Defaults given to convert_missing_cells: the declared ones ("", 0, 0.0)
\* and ("X", 9, 1.5).
Defaults ==
    { [dstr |-> PyStr(<<>>), dint |-> PyInt(0), dfloat |-> PyFloat(0, 0)],
      [dstr |-> PyStr(<<"X">>), dint |-> PyInt(9), dfloat |-> PyFloat(15, -1)] }

\* Keyword arguments given to convert_columns.
KwargsSet ==
    { (<<"a">> :> "neg"),
      (<<"A">> :> "len") @@ (<<"b">> :> "lower"),
      (<<"A">> :> "len") @@ (<<"b">> :> "len") }

\* (fstr, fint, ffloat) given to convert_types.
TypeFns ==
    { [fstr |-> "len", fint |-> "", ffloat |-> "neg"],
      [fstr |-> "", fint |-> "neg", ffloat |-> ""] }

\* Names looked up with column.
LookupNames == {<<"a">>, <<"A">>, <<"b">>, <<"1">>}

----------------------------------------------------------------------------
(* Calls                                                                   *)

NoOp == [name |-> "init", f |-> Closure(""), namef |-> "", colname |-> <<>>]

Call(name) == [NoOp EXCEPT !.name = name]

CallF(name, f) == [NoOp EXCEPT !.name = name, !.f = f]

Transforms ==
    {"map_names", "map_data", "cast", "convert_missing_cells",
     "convert_columns", "convert_types"}

\* A table has been loaded and may be passed to a call.
Loaded ==
    /\ op.name \notin {"init", "infer"}
    /\ ~(op.name \in {"read", "_column_types"} /\ err.kind # "")

CanCall == Loaded /\ nops < MaxOps

\* The caller runs t = g(t): on return t is the new table; when g raises, t
\* is still the input object.
Return(r, o) ==
    /\ prev' = table
    /\ arg' = r.arg
    /\ err' = r.err
    /\ table' = IF r.err.kind = "" THEN r.ret ELSE r.arg
    /\ view' = NoColumn
    /\ cols' = <<>>
    /\ freq' = NoFreq
    /\ op' = o
    /\ nops' = nops + 1
    /\ UNCHANGED <<file, skip_header, fold>>

Init ==
    /\ skip_header \in BOOLEAN
    /\ file \in (IF skip_header THEN Bodies(1) \cup Bodies(2)
                 ELSE HeadedFiles \cup {<<>>}) \cup RaggedFiles
    /\ table = NoTable
    /\ prev = NoTable
    /\ arg = NoTable
    /\ err = NoErr
    /\ view = NoColumn
    /\ cols = <<>>
    /\ freq = NoFreq
    /\ fold = NoFold
    /\ op = NoOp
    /\ nops = 0

Read ==
    /\ op.name = "init"
    /\ LET r == read(file, skip_header) IN
          /\ table' = r.ret
          /\ err' = r.err
    /\ op' = Call("read")
    /\ UNCHANGED <<file, skip_header, prev, arg, view, cols, freq, fold, nops>>

DoCast ==
    /\ CanCall
    /\ Return(cast(table), CallF("cast", Closure("cast")))

DoConvertMissingCells ==
    /\ CanCall
    /\ \E d \in Defaults :
          Return(convert_missing_cells(table, d.dstr, d.dint, d.dfloat),
                 CallF("convert_missing_cells",
                       [Closure("convert_missing_cells") EXCEPT
                           !.dstr = d.dstr, !.dint = d.dint, !.dfloat = d.dfloat]))

DoConvertColumns ==
    /\ CanCall
    /\ \E kwargs \in KwargsSet :
          Return(convert_columns(table, kwargs),
                 CallF("convert_columns",
                       [Closure("convert_columns") EXCEPT !.kwargs = kwargs]))

DoConvertTypes ==
    /\ CanCall
    /\ \E t \in TypeFns :
          Return(convert_types(table, t.fstr, t.fint, t.ffloat),
                 CallF("convert_types",
                       [Closure("convert_types") EXCEPT
                           !.fstr = t.fstr, !.fint = t.fint, !.ffloat = t.ffloat]))

DoMapData ==
    /\ CanCall
    /\ \E g \in {"lower"} :
          Return(map_data(table, [Closure("user") EXCEPT !.g = g]),
                 CallF("map_data", [Closure("user") EXCEPT !.g = g]))

DoMapNames ==
    /\ CanCall
    /\ \E f \in NameFns :
          Return(map_names(table, f), [Call("map_names") EXCEPT !.namef = f])

DoColumn ==
    /\ CanCall
    /\ \E colname \in LookupNames :
          LET r == column(table, colname) IN
             /\ prev' = table
             /\ arg' = r.arg
             /\ table' = r.arg
             /\ err' = r.err
             /\ view' = r.ret
             /\ cols' = <<>>
             /\ freq' = NoFreq
             /\ op' = [Call("column") EXCEPT !.colname = colname]
             /\ nops' = nops + 1
             /\ UNCHANGED <<file, skip_header, fold>>

DoColumns ==
    /\ CanCall
    /\ LET r == columns(table) IN
          /\ prev' = table
          /\ arg' = r.arg
          /\ table' = r.arg
          /\ err' = r.err
          /\ view' = NoColumn
          /\ cols' = r.ret
          /\ freq' = NoFreq
          /\ op' = Call("columns")
          /\ nops' = nops + 1
          /\ UNCHANGED <<file, skip_header, fold>>

\* frequencies of the Column that column has just returned.
DoFrequencies ==
    /\ op.name = "column"
    /\ err.kind = ""
    /\ \E python \in Pythons :
          LET r == frequencies(view, python) IN
             /\ err' = r.err
             /\ freq' = [python |-> python, counts |-> r.ret]
    /\ op' = Call("frequencies")
    /\ UNCHANGED <<file, skip_header, table, prev, arg, view, cols, fold, nops>>

Next ==
    \/ Read
    \/ DoCast
    \/ DoConvertMissingCells
    \/ DoConvertColumns
    \/ DoConvertTypes
    \/ DoMapData
    \/ DoMapNames
    \/ DoColumn
    \/ DoColumns
    \/ DoFrequencies

Spec == Init /\ [][Next]_vars

----------------------------------------------------------------------------
(* Inference and cast applied to grids given directly                      *)

InitInfer ==
    /\ file = <<>>
    /\ skip_header = FALSE
    /\ \E names \in InferNames : \E rows \in InferGrids(Len(names)) :
          table = Table([name \in Range(names) |-> "None"], names, rows)
    /\ prev = NoTable
    /\ arg = NoTable
    /\ err = NoErr
    /\ view = NoColumn
    /\ cols = <<>>
    /\ freq = NoFreq
    /\ fold = NoFold
    /\ op = Call("infer")
    /\ nops = 0

ColumnTypes ==
    /\ op.name = "infer"
    /\ LET ty == _column_types(table.names, table.rows) IN
          /\ table' = [table EXCEPT !.types = ty.types]
          /\ err' = ty.err
    /\ op' = Call("_column_types")
    /\ UNCHANGED <<file, skip_header, prev, arg, view, cols, freq, fold, nops>>

NextInfer == ColumnTypes \/ DoCast

SpecInfer == InitInfer /\ [][NextInfer]_vars

----------------------------------------------------------------------------
(* _column_types run one cell at a time                                    *)

\* On entry the types dict maps every name to None and the loop over the
\* columns starts its first iteration: c is the column, k the next row.
InitFold ==
    /\ file = <<>>
    /\ skip_header = FALSE
    /\ \E names \in InferNames : \E rows \in InferGrids(Len(names)) :
          table = Table([name \in Range(names) |-> "None"], names, rows)
    /\ prev = NoTable
    /\ arg = NoTable
    /\ err = NoErr
    /\ view = NoColumn
    /\ cols = <<>>
    /\ freq = NoFreq
    /\ fold = [c |-> 1, k |-> 1, prev_typ |-> "None", next_typ |-> "None"]
    /\ op = Call("fold")
    /\ nops = 0

\* One iteration of the loop over the rows: the cell is classified and
\* merged into prev_typ; a row without cell c ends the call with IndexError.
FoldCell ==
    /\ op.name = "fold"
    /\ fold.c \in DOMAIN table.names
    /\ fold.k \in DOMAIN table.rows
    /\ IF fold.c \notin DOMAIN table.rows[fold.k]
       THEN /\ err' = Error("IndexError")
            /\ op' = Call("_column_types")
            /\ fold' = fold
       ELSE LET nxt == classify(table.rows[fold.k][fold.c],
                                fold.prev_typ, fold.next_typ)
            IN /\ fold' = [fold EXCEPT !.k = fold.k + 1,
                                       !.prev_typ = merge(fold.prev_typ, nxt),
                                       !.next_typ = nxt]
               /\ UNCHANGED <<err, op>>
    /\ UNCHANGED <<file, skip_header, table, prev, arg, view, cols, freq, nops>>

\* The rows are exhausted: prev_typ is stored under the column's name and
\* the next column starts from None.
FoldColumn ==
    /\ op.name = "fold"
    /\ fold.c \in DOMAIN table.names
    /\ fold.k > Len(table.rows)
    /\ table' = [table EXCEPT !.types[table.names[fold.c]] = fold.prev_typ]
    /\ fold' = [c |-> fold.c + 1, k |-> 1,
                prev_typ |-> "None", next_typ |-> "None"]
    /\ UNCHANGED <<file, skip_header, prev, arg, err, view, cols, freq, op, nops>>

\* The columns are exhausted: types is returned.
FoldReturn ==
    /\ op.name = "fold"
    /\ fold.c > Len(table.names)
    /\ op' = Call("_column_types")
    /\ UNCHANGED <<file, skip_header, table, prev, arg, err, view, cols, freq,
                   fold, nops>>

NextFold == FoldCell \/ FoldColumn \/ FoldReturn

SpecFold == InitFold /\ [][NextFold]_vars

----------------------------------------------------------------------------
(* Properties                                                              *)

\* The classification of one raw cell: empty, integer literal, float
\* literal, or text.
Kind(cell) ==
    IF Len(cell.s) = 0 THEN "None"
    ELSE IF int_ok(cell.s) THEN "int"
    ELSE IF float_ok(cell.s) THEN "float"
    ELSE "str"

KindsOfColumn(t, c) == {Kind(t.rows[r][c]) : r \in DOMAIN t.rows}

Distinct(names) ==
    \A i, j \in DOMAIN names : names[i] = names[j] => i = j

Ok == err.kind = ""

\* Every cell is None or a value of its column's type, and a None-typed
\* column holds only None.
WellTyped(t) ==
    /\ Range(t.names) \subseteq DOMAIN t.types
    /\ \A r \in DOMAIN t.rows :
          /\ DOMAIN t.rows[r] = DOMAIN t.names
          /\ \A c \in DOMAIN t.rows[r] :
                t.rows[r][c].tag \in {"None", t.types[t.names[c]]}

NoEmptyText(t) ==
    \A r \in DOMAIN t.rows : \A c \in DOMAIN t.rows[r] :
        ~(t.rows[r][c].tag = "str" /\ Len(t.rows[r][c].s) = 0)

\* The table read builds from the file before it casts it.
RawTable ==
    LET d == _data(file, skip_header) IN
        Table(_column_types(d.names, d.rows).types, d.names, d.rows)

RawTableBuilt ==
    LET d == _data(file, skip_header) IN
        d.err.kind = "" /\ _column_types(d.names, d.rows).err.kind = ""

\* C1: with distinct column names, _column_types gives every column exactly
\* one type: None iff all its cells are empty; int iff all are empty or
\* integers and one is an integer; float iff all are empty, integers or
\* floats and one is a float; str iff some cell is text.
C1_ColumnTypeCharacterised ==
    (op.name = "_column_types" /\ Distinct(table.names)) =>
        /\ Ok
        /\ DOMAIN table.types = Range(table.names)
        /\ \A c \in DOMAIN table.names :
              LET typ == table.types[table.names[c]]
                  kinds == KindsOfColumn(table, c)
              IN /\ typ \in Types
                 /\ typ = "None" <=> kinds \subseteq {"None"}
                 /\ typ = "int" <=>
                       (kinds \subseteq {"None", "int"} /\ "int" \in kinds)
                 /\ typ = "float" <=>
                       (kinds \subseteq {"None", "int", "float"}
                           /\ "float" \in kinds)
                 /\ typ = "str" <=> "str" \in kinds

\* C1 witness: a column whose first cell is text and whose second cell is an
\* integer has been given type str.
C1_Witness ==
    /\ op.name = "_column_types"
    /\ Distinct(table.names)
    /\ Len(table.rows) >= 2
    /\ \E c \in DOMAIN table.names :
          /\ Kind(table.rows[1][c]) = "str"
          /\ Kind(table.rows[2][c]) = "int"
          /\ table.types[table.names[c]] = "str"

\* C2: cast is idempotent: whenever cast(T) succeeds, cast(cast(T)) succeeds
\* and equals cast(T), for the raw table read builds and for every table a
\* sequence of calls reaches.
C2_CastIdempotent ==
    LET Idempotent(t) ==
            cast(t).err.kind = "" =>
                /\ cast(cast(t).ret).err.kind = ""
                /\ cast(cast(t).ret).ret = cast(t).ret
    IN /\ (op.name = "init" /\ RawTableBuilt) => Idempotent(RawTable)
       /\ Loaded => Idempotent(table)

\* C2 witness: a loaded table that cast accepts and changes.
C2_Witness ==
    /\ Loaded
    /\ cast(table).err.kind = ""
    /\ cast(table).ret # table

\* C3: casting a grid with the types _column_types returned never fails,
\* whether or not the column names are distinct.
C3_CastAfterInferenceNeverFails ==
    (op.name = "cast" /\ nops = 1) => Ok

\* C4: in a table returned by read every non-null cell has the runtime type
\* of its column, and a None-typed column holds only None.
C4_ReadCellsHaveColumnType ==
    (op.name = "read" /\ Ok) =>
        /\ Range(table.names) \subseteq DOMAIN table.types
        /\ \A r \in DOMAIN table.rows : \A c \in DOMAIN table.rows[r] :
              /\ c \in DOMAIN table.names
              /\ table.rows[r][c].tag \in {"None", table.types[table.names[c]]}

\* C4 witness: read returned a float column holding 1.0, the cast of the
\* integer literal "1".
C4_Witness ==
    /\ op.name = "read"
    /\ Ok
    /\ \E r \in DOMAIN table.rows : \E c \in DOMAIN table.rows[r] :
          /\ table.types[table.names[c]] = "float"
          /\ table.rows[r][c] = PyFloat(1, 0)

\* C5: every table reached from read by calls that return a table is
\* rectangular, with as many rows as were loaded.
C5_Rectangular ==
    Loaded =>
        /\ \A r \in DOMAIN table.rows : Len(table.rows[r]) = Len(table.names)
        /\ Len(table.rows) = Len(_data(file, skip_header).rows)
        /\ (op.name \in Transforms /\ Ok) => Len(table.rows) = Len(prev.rows)

\* C5 witness: map_names returned a table with other names and some rows.
C5_Witness ==
    /\ op.name = "map_names"
    /\ Ok
    /\ table.names # prev.names
    /\ Len(table.rows) > 0

\* C6: in every table reached from read every name in names has an entry in
\* types, also after map_names has replaced a name.
C6_EveryNameHasType ==
    Loaded => Range(table.names) \subseteq DOMAIN table.types

\* C7 as claimed: cast returns every cell unchanged when the cells are
\* already values of their column's type.
C7_CastNoOpOnTyped ==
    (op.name = "cast" /\ WellTyped(prev)) => (Ok /\ table = prev)

\* C7 as amended: cast returns every cell unchanged when the cells are
\* already values of their column's type and no Text cell is the empty
\* string (cast turns an empty Text cell into Null).
C7_CastNoOpOnTypedNonEmpty ==
    (op.name = "cast" /\ WellTyped(prev) /\ NoEmptyText(prev)) =>
        (Ok /\ table = prev)

\* C7 witness: cast was given a well-typed table holding the Text default
\* "X" that convert_missing_cells put there.
C7_Witness ==
    /\ op.name = "cast"
    /\ WellTyped(prev)
    /\ NoEmptyText(prev)
    /\ \E r \in DOMAIN prev.rows : \E c \in DOMAIN prev.rows[r] :
          prev.rows[r][c] = PyStr(<<"X">>)

\* C8: convert_missing_cells replaces a Null cell by dstr, dint or dfloat
\* according to its column's type, leaves the Null cells of None-typed
\* columns Null, and leaves every other cell unchanged.
C8_MissingCellsTypeDirected ==
    (op.name = "convert_missing_cells" /\ Ok) =>
        /\ DOMAIN table.rows = DOMAIN prev.rows
        /\ \A r \in DOMAIN prev.rows :
              /\ DOMAIN table.rows[r] = DOMAIN prev.rows[r]
              /\ \A c \in DOMAIN prev.rows[r] :
                    LET typ == prev.types[prev.names[c]]
                        old == prev.rows[r][c]
                        new == table.rows[r][c]
                    IN IF old.tag # "None" THEN new = old
                       ELSE IF typ = "str" THEN new = op.f.dstr
                       ELSE IF typ = "int" THEN new = op.f.dint
                       ELSE IF typ = "float" THEN new = op.f.dfloat
                       ELSE new = PyNone

\* C8 witness: a Null cell of an int column became 9 while a Null cell of a
\* None-typed column stayed Null.
C8_Witness ==
    /\ op.name = "convert_missing_cells"
    /\ Ok
    /\ \E r \in DOMAIN prev.rows : \E c, d \in DOMAIN prev.rows[r] :
          /\ prev.types[prev.names[c]] = "int"
          /\ prev.rows[r][c] = PyNone
          /\ table.rows[r][c] = PyInt(9)
          /\ prev.types[prev.names[d]] = "None"
          /\ table.rows[r][d] = PyNone

\* C9: a transform leaves its input table as it was, whether it returns or
\* raises; a map_data-based transform returns the input's names and types,
\* and map_names returns the input's rows and types.
C9_TransformsPure ==
    op.name \in Transforms =>
        /\ arg = prev
        /\ ~Ok => table = prev
        /\ (Ok /\ op.name # "map_names") =>
              (table.names = prev.names /\ table.types = prev.types)
        /\ (Ok /\ op.name = "map_names") =>
              (table.rows = prev.rows /\ table.types = prev.types)

\* C9 witness: convert_columns raised on the second row after it had
\* computed a new cell for the first.
C9_Witness ==
    /\ op.name = "convert_columns"
    /\ err.kind = "TypeError"
    /\ Len(prev.rows) >= 2
    /\ prev.names[1] \in DOMAIN op.f.kwargs
    /\ ~IsRaise(ApplyFn(op.f.kwargs[prev.names[1]], prev.rows[1][1]))
    /\ ApplyFn(op.f.kwargs[prev.names[1]], prev.rows[1][1]) # prev.rows[1][1]

\* The smallest index whose lowercased name equals the lowercased colname,
\* 0 when there is none.
FirstMatch(names, colname) ==
    LET hits == {i \in DOMAIN names : lower(names[i]) = lower(colname)}
    IN IF hits = {} THEN 0 ELSE CHOOSE i \in hits : \A j \in hits : i <= j

\* C10: column fails with the not-found error exactly when no name matches
\* case-insensitively, and otherwise returns the first matching column's
\* name, type and cells in row order; the table is unchanged.
C10_ColumnLookup ==
    op.name = "column" =>
        LET i == FirstMatch(prev.names, op.colname) IN
            /\ arg = prev
            /\ table = prev
            /\ err.kind = "AssertionError" <=> i = 0
            /\ i # 0 =>
                  /\ Ok
                  /\ view.name = prev.names[i]
                  /\ view.type = prev.types[prev.names[i]]
                  /\ view.cells = [r \in DOMAIN prev.rows |-> prev.rows[r][i]]

C12_ConvertColumnsByExactName ==
    (op.name = "convert_columns" /\ Ok) =>
        /\ DOMAIN table.rows = DOMAIN prev.rows
        /\ \A r \in DOMAIN prev.rows :
              /\ DOMAIN table.rows[r] = DOMAIN prev.rows[r]
              /\ \A c \in DOMAIN prev.rows[r] :
                    LET old == prev.rows[r][c]
                        new == table.rows[r][c]
                        keys == {key \in DOMAIN op.f.kwargs : key = prev.names[c]}
                    IN IF keys = {} THEN new = old
                       ELSE \A key \in keys : new = ApplyFn(op.f.kwargs[key], old)

\* C12 witness: with keys "A" and "b", a text cell of the column named "a"
\* was left as it was while a cell of column "b" was replaced.
C12_Witness ==
    /\ op.name = "convert_columns"
    /\ Ok
    /\ <<"A">> \in DOMAIN op.f.kwargs
    /\ \E r \in DOMAIN prev.rows : \E c, d \in DOMAIN prev.rows[r] :
          /\ prev.names[c] = <<"a">>
          /\ prev.rows[r][c].tag = "str"
          /\ table.rows[r][c] = prev.rows[r][c]
          /\ prev.names[d] = <<"b">>
          /\ table.rows[r][d] # prev.rows[r][d]

\* C13: convert_types dispatches on the type of the cell's column: a cell of
\* a str, int or float column is replaced by fstr(cell), fint(cell) or
\* ffloat(cell) when that function is given and is unchanged when it is not;
\* a cell of a None-typed column is never transformed.
C13_ConvertTypesByColumnType ==
    (op.name = "convert_types" /\ Ok) =>
        /\ DOMAIN table.rows = DOMAIN prev.rows
        /\ \A r \in DOMAIN prev.rows :
              /\ DOMAIN table.rows[r] = DOMAIN prev.rows[r]
              /\ \A c \in DOMAIN prev.rows[r] :
                    LET typ == prev.types[prev.names[c]]
                        old == prev.rows[r][c]
                        new == table.rows[r][c]
                        fn == CASE typ = "str" -> op.f.fstr
                                [] typ = "int" -> op.f.fint
                                [] typ = "float" -> op.f.ffloat
                                [] OTHER -> ""
                    IN new = (IF fn = "" THEN old ELSE ApplyFn(fn, old))

\* C13 witness: fint was given and fstr was not; a cell of an int column was
\* replaced, and in the same row a cell of a None-typed or str column was
\* left as it was.
C13_Witness ==
    /\ op.name = "convert_types"
    /\ Ok
    /\ op.f.fint # ""
    /\ op.f.fstr = ""
    /\ \E r \in DOMAIN prev.rows : \E c, d \in DOMAIN prev.rows[r] :
          /\ prev.types[prev.names[c]] = "int"
          /\ table.rows[r][c] # prev.rows[r][c]
          /\ prev.types[prev.names[d]] \in {"None", "str"}
          /\ table.rows[r][d] = prev.rows[r][d]

\* The sum of the values of a dict of counts.
RECURSIVE SumCounts(_)
SumCounts(counts) ==
    IF DOMAIN counts = {} THEN 0
    ELSE LET key == CHOOSE key \in DOMAIN counts : TRUE
         IN counts[key]
            + SumCounts([other \in DOMAIN counts \ {key} |-> counts[other]])

\* C14: frequencies(column) returns a mapping whose keys are exactly the
\* distinct cell values of the column, Null included, each mapped to the
\* number of cells equal to it, so that the counts sum to the number of
\* cells.
C14_FrequenciesCountEveryValue ==
    op.name = "frequencies" =>
        /\ Ok
        /\ DOMAIN freq.counts = {view.cells[i] : i \in DOMAIN view.cells}
        /\ \A key \in DOMAIN freq.counts :
              freq.counts[key]
                 = Cardinality({i \in DOMAIN view.cells : view.cells[i] = key})
        /\ SumCounts(freq.counts) = Len(view.cells)

\* The rows of the file that are data rows: all of them when skip_header is
\* set, all but the header row otherwise.
DataRows == IF skip_header \/ file = <<>> THEN file ELSE Tail(file)

\* The column count a load establishes: the width of the header row, or the
\* width of the first data row when the header is skipped or has no field.
EstablishedWidth ==
    IF file # <<>> /\ (skip_header \/ Len(Head(file)) > 0) THEN Len(Head(file))
    ELSE IF DataRows # <<>> THEN Len(Head(DataRows))
    ELSE 0

\* The positions (from 1) of the data rows whose width is not the
\* established one.
BadRows == {i \in DOMAIN DataRows : Len(DataRows[i]) # EstablishedWidth}

\* C15: when some data row's cell count differs from the established column
\* count, the load fails with the shape error at the first such row,
\* reporting that row's index (from 0) with its actual and the expected
\* length, and no table is returned.
C15_ShapeErrorAtFirstBadRow ==
    (op.name = "read" /\ BadRows # {}) =>
        LET i == CHOOSE i \in BadRows : \A j \in BadRows : i <= j IN
           /\ err = [kind |-> "AssertionError", row |-> i - 1,
                     actual |-> Len(DataRows[i]), expected |-> EstablishedWidth]
           /\ table = NoTable

C17_UnknownTypeUnreachable ==
    /\ Loaded =>
          \A name \in DOMAIN table.types :
              table.types[name] \in {"None", "str", "int", "float"}
    /\ op.name = "convert_missing_cells" =>
          /\ err.kind # "AssertionError"
          /\ \A r \in DOMAIN prev.rows : \A c \in DOMAIN prev.rows[r] :
                prev.names[c] \in DOMAIN prev.types =>
                   convert_missing_cells_f(op.f, prev.types[prev.names[c]],
                                           prev.names[c], r, c, prev.rows[r][c])
                      # Raise("AssertionError")

\* C17 witness: after an earlier transform, convert_missing_cells met a Null
\* cell in a float column, the last branch before the assertion, and
\* replaced it.
C17_Witness ==
    /\ op.name = "convert_missing_cells"
    /\ Ok
    /\ nops = 2
    /\ \E r \in DOMAIN prev.rows : \E c \in DOMAIN prev.names :
          /\ prev.types[prev.names[c]] = "float"
          /\ prev.rows[r][c] = PyNone
          /\ table.rows[r][c] = op.f.dfloat

\* C18: the short-circuit of _column_types does not change its result: for
\* every list of names and every rectangular grid, the column-by-column fold
\* of _column_types returns the same mapping from names to types as the
\* row-by-row fold of column_types, which parses every non-empty cell.
C18_SameTypesAsRowMajorFold ==
    op.name = "_column_types" =>
        LET row_major == column_types(table.names, table.rows) IN
           /\ err = row_major.err
           /\ table.types = row_major.types

\* The order None < int < float < str of the committed type.
Rank(typ) ==
    CASE typ = "None" -> 0
      [] typ = "int" -> 1
      [] typ = "float" -> 2
      [] typ = "str" -> 3

\* The fold, run cell by cell, returns what _column_types returns.
FoldReturnsColumnTypes ==
    op.name = "_column_types" =>
        /\ err = _column_types(table.names, table.rows).err
        /\ table.types = _column_types(table.names, table.rows).types

\* C19: during the fold over a column the committed type only moves upward
\* in the order None < int < float < str: every step over a cell leaves it
\* where it was or raises it, and a step over an empty cell leaves it where
\* it was.
C19_CommittedTypeOnlyRises ==
    [][(op.name = "fold" /\ fold'.c = fold.c /\ fold'.k = fold.k + 1) =>
          /\ Rank(fold'.prev_typ) >= Rank(fold.prev_typ)
          /\ Len(table.rows[fold.k][fold.c].s) = 0 =>
                fold'.prev_typ = fold.prev_typ]_vars

\* C19 witness: the fold has passed an integer and then a float in one column
\* and its committed type has risen to float.
C19_Witness ==
    /\ op.name = "fold"
    /\ fold.c \in DOMAIN table.names
    /\ fold.k = 3
    /\ Kind(table.rows[1][fold.c]) = "int"
    /\ Kind(table.rows[2][fold.c]) = "float"
    /\ fold.prev_typ = "float"

====
